---- MODULE Spec2Model ----
(***************************************************************************)
(* ConcurrencyManager of src/concurrency-manager.js as a state machine.    *)
(*                                                                         *)
(* The registries (mutexes, gameLocks, playerQueues) are Maps: a Map is a  *)
(* function whose DOMAIN is its key set.  A waiter queue holds closures     *)
(* (tryAcquire / tryAcquireGameLock); a closure is identified here by the  *)
(* number of the acquire call that created it.  Every acquire call has a   *)
(* record holding its arguments, the state of its promise and of its       *)
(* timeout timer.  Node runs one callback at a time, so each action is one *)
(* callback (an API call, a timer callback) run to completion.             *)
(*                                                                         *)
(* Time is Date.now() in milliseconds, advanced in steps of TickMs.  A     *)
(* timer that is due runs before the clock moves on.                       *)
(*                                                                         *)
(* A unit of work given to executeInThread is known by the id of its task  *)
(* wrapper; the promise of a task a worker runs settles in a step of its   *)
(* own (taskSettles), unless the task throws when it is called.            *)
(*                                                                         *)
(* Of src/server.js the module holds UDPLikeCommunicator (reliable         *)
(* messages, with the clock in steps of its timeout) and the joinRoom      *)
(* handler, the one caller of acquireGameLock.                             *)
(***************************************************************************)
EXTENDS Integers, Sequences, FiniteSets, TLC

VARIABLES
  now,          \* Date.now(), ms
  nextCleanup,  \* due time of the setInterval callback of startCleanupInterval
  mutexes,      \* this.mutexes    : resourceId -> [locked, owner, queue]
  mutexCalls,   \* the acquireMutex calls made so far, in call order
  mutexWake,    \* closures scheduled by releaseMutex with setTimeout(next, 0)
  mutexGrants,  \* per resource, the acquireMutex calls whose promise resolved, in order
  gameLocks,    \* this.gameLocks  : lockKey -> [locked, owner, timestamp, queue]
  lockCalls,    \* the acquireGameLock calls made so far, in call order
  lockWake,     \* closures scheduled by releaseGameLock with setTimeout(next, 0)
  lockGrants,   \* per lock key, the acquireGameLock calls whose promise resolved, in order
  playerQueues, \* this.playerQueues : key -> list
  threadPool,   \* this.threadPool   : index -> [id, busy, currentTask]
  activeThreads,\* this.activeThreads
  futures,      \* state of the promise returned by each executeInThread call
  submitLog,    \* the executeInThread calls made since a task last settled, in call order
  lastReturn,   \* what the last call of a turn-queue or reporting method returned
  messageQueue, \* UDPLikeCommunicator.messageQueue : socketId -> messageId -> message
  acknowledgments, \* UDPLikeCommunicator.acknowledgments : messageId -> { resolve, timeout }
  sends,        \* the sendReliableMessage calls made so far, in call order
  handlers      \* the joinRoom handlers that have finished, by acquireGameLock call

vars == <<now, nextCleanup, mutexes, mutexCalls, mutexWake, mutexGrants,
          gameLocks, lockCalls, lockWake, lockGrants, playerQueues,
          threadPool, activeThreads, futures, submitLog, lastReturn,
          messageQueue, acknowledgments, sends, handlers>>

mutexVars == <<mutexes, mutexCalls, mutexWake, mutexGrants>>
lockVars == <<gameLocks, lockCalls, lockWake, lockGrants>>
schedVars == <<threadPool, activeThreads, futures, submitLog>>
commVars == <<messageQueue, acknowledgments, sends>>
serverVars == <<commVars, handlers>>

----------------------------------------------------------------------------
(* Program constants *)

STALE_MS == 10000
TTL_MS == 30000
CLEANUP_INTERVAL_MS == 10000

(* Bounds of the model *)

MaxMutexCalls == 4
MaxLockCalls == 3
MaxTicks == 4
\* calls of executeInThread whose promise is pending at one time
MaxTasks == 4
\* size of the worker pool (this.maxThreads, line 10, is 10 in the program)
maxThreads == 2

\* granularity of the clock: every threshold of the program is a multiple of it
TickMs == STALE_MS
MaxNow == MaxTicks * TickMs

\* the default timeout of acquireGameLock, which joinRoom uses
JOIN_TIMEOUT_MS == 3000

\* UDPLikeCommunicator: this.retryAttempts, this.timeoutMs
retryAttempts == 3
timeoutMs == 1000

\* sendReliableMessage calls, message ids per millisecond, clock steps of timeoutMs
MaxSends == 2
IdsPerMs == 2
MaxShortTicks == 4
MaxShortNow == MaxShortTicks * timeoutMs

Resources == {"R1", "R2"}
Matches == {"1", "2"}
Players == {"p1", "p2"}
\* timeouts callers pass: one within the staleness threshold, one beyond it
Timeouts == {TickMs, 3 * TickMs}

Null == "null"

----------------------------------------------------------------------------
(* Map and Array helpers *)

MapSet(m, k, v) == [x \in DOMAIN m \cup {k} |-> IF x = k THEN v ELSE m[x]]
MapDelete(m, k) == [x \in DOMAIN m \ {k} |-> m[x]]
EmptyMap == [x \in {} |-> Null]

RECURSIVE SeqToSet(_)
SeqToSet(s) == IF s = <<>> THEN {} ELSE {Head(s)} \cup SeqToSet(Tail(s))

----------------------------------------------------------------------------
(* acquireMutex / releaseMutex *)

\* a tryAcquire that takes "no waiter queued" for "not locked"
MutexFreeIfNoWaiters(r) == r \notin DOMAIN mutexes \/ mutexes[r].queue = <<>>

\* line 35: the condition under which tryAcquire takes the mutex
MutexFree(r) == r \notin DOMAIN mutexes \/ ~mutexes[r].locked

\* a tryAcquire that stores the entry without marking it locked
NewMutexUnlocked == [locked |-> FALSE, owner |-> Null, queue |-> <<>>]

\* lines 36-40: the entry tryAcquire stores when it takes the mutex
NewMutex == [locked |-> TRUE, owner |-> Null, queue |-> <<>>]

\* a tryAcquire that puts the waiter at the front of the queue (unshift for push)
MutexEnqueueFront(r, c) == MapSet(mutexes, r, [mutexes[r] EXCEPT !.queue = <<c>> \o @])

\* lines 47-48: mutex.queue.push(tryAcquire)
MutexEnqueue(r, c) == MapSet(mutexes, r, [mutexes[r] EXCEPT !.queue = Append(@, c)])

\* a setTimeout(next, 0) of releaseMutex is pending for resource r
MutexWakePending(r) == \E i \in DOMAIN mutexWake : mutexCalls[mutexWake[i]].res = r

\* a promise whose resolve takes effect even after it was rejected
MutexResolveAgain(calls, c) ==
  [calls EXCEPT ![c].st = "held", ![c].deadline = 0]

\* lines 41-44 run by call c: clearTimeout, resolve (no effect once rejected)
MutexResolve(calls, c) ==
  IF calls[c].st = "waiting"
  THEN [calls EXCEPT ![c].st = "held", ![c].deadline = 0]
  ELSE calls

MutexGranted(calls, c) ==
  IF calls[c].st = "waiting"
  THEN [mutexGrants EXCEPT ![calls[c].res] = Append(@, c)]
  ELSE mutexGrants

\* acquireMutex(r, t): arm the timeout timer (lines 30-32), run tryAcquire once
acquireMutex(r, t) ==
  /\ Len(mutexCalls) < MaxMutexCalls
  /\ LET c == Len(mutexCalls) + 1
         calls == Append(mutexCalls,
                    [res |-> r, st |-> "waiting", deadline |-> now + t,
                     how |-> IF ~MutexFree(r) THEN "queued"
                             ELSE IF MutexWakePending(r) THEN "barge" ELSE "free"])
     IN IF MutexFree(r)
        THEN /\ mutexes' = MapSet(mutexes, r, NewMutex)
             /\ mutexCalls' = MutexResolve(calls, c)
             /\ mutexGrants' = MutexGranted(calls, c)
        ELSE /\ mutexes' = MutexEnqueue(r, c)
             /\ mutexCalls' = calls
             /\ UNCHANGED mutexGrants
  /\ UNCHANGED <<serverVars, now, nextCleanup, mutexWake, lockVars, playerQueues, schedVars, lastReturn>>

\* the timer callback setTimeout(next, 0): tryAcquire of a dequeued closure
tryAcquire ==
  /\ mutexWake # <<>>
  /\ LET c == Head(mutexWake)
         r == mutexCalls[c].res
     IN /\ mutexWake' = Tail(mutexWake)
        /\ IF MutexFree(r)
           THEN /\ mutexes' = MapSet(mutexes, r, NewMutex)
                /\ mutexCalls' = MutexResolve(mutexCalls, c)
                /\ mutexGrants' = MutexGranted(mutexCalls, c)
           ELSE /\ mutexes' = MutexEnqueue(r, c)
                /\ UNCHANGED <<mutexCalls, mutexGrants>>
  /\ UNCHANGED <<serverVars, now, nextCleanup, lockVars, playerQueues, schedVars, lastReturn>>

\* lines 30-32: the timeout timer fires and rejects the promise
mutexTimeout(c) ==
  /\ mutexCalls[c].st = "waiting"
  /\ now >= mutexCalls[c].deadline
  /\ mutexCalls' = [mutexCalls EXCEPT ![c].st = "timedout", ![c].deadline = 0]
  /\ UNCHANGED <<serverVars, now, nextCleanup, mutexes, mutexWake, mutexGrants, lockVars, playerQueues, schedVars, lastReturn>>

\* a releaseMutex that unlocks the entry but never deletes it
releaseMutexKeepsEntry(r) ==
  IF r \in DOMAIN mutexes /\ mutexes[r].locked
  THEN IF mutexes[r].queue # <<>>
       THEN /\ mutexes' = MapSet(mutexes, r,
                 [locked |-> FALSE, owner |-> Null, queue |-> Tail(mutexes[r].queue)])
            /\ mutexWake' = Append(mutexWake, Head(mutexes[r].queue))
       ELSE /\ mutexes' = MapSet(mutexes, r, [mutexes[r] EXCEPT !.locked = FALSE])
            /\ UNCHANGED mutexWake
  ELSE UNCHANGED <<mutexes, mutexWake>>

\* lines 56-70: the registry and timer queue after releaseMutex(r)
releaseMutex(r) ==
  IF r \in DOMAIN mutexes /\ mutexes[r].locked
  THEN IF mutexes[r].queue # <<>>
       THEN /\ mutexes' = MapSet(mutexes, r,
                 [locked |-> FALSE, owner |-> Null, queue |-> Tail(mutexes[r].queue)])
            /\ mutexWake' = Append(mutexWake, Head(mutexes[r].queue))
       ELSE /\ mutexes' = MapDelete(mutexes, r)
            /\ UNCHANGED mutexWake
  ELSE UNCHANGED <<mutexes, mutexWake>>

\* handle.release() by the caller the handle was granted to, first time
mutexHandleRelease(c) ==
  /\ mutexCalls[c].st = "held"
  /\ mutexCalls' = [mutexCalls EXCEPT ![c].st = "released"]
  /\ releaseMutex(mutexCalls[c].res)
  /\ UNCHANGED <<serverVars, now, nextCleanup, mutexGrants, lockVars, playerQueues, schedVars, lastReturn>>

\* handle.release() called again on a handle that was already released
mutexHandleReleaseAgain(c) ==
  /\ mutexCalls[c].st = "released"
  /\ releaseMutex(mutexCalls[c].res)
  /\ UNCHANGED <<serverVars, now, nextCleanup, mutexCalls, mutexGrants, lockVars, playerQueues, schedVars, lastReturn>>

----------------------------------------------------------------------------
(* acquireGameLock / releaseGameLock *)

\* line 75: lockKey of a gameId
LockKey(gameId) == "game_" \o gameId

LockKeys == {LockKey(g) : g \in Matches}

\* line 81: the condition under which tryAcquireGameLock takes the lock
LockFree(k) == k \notin DOMAIN gameLocks \/ ~gameLocks[k].locked

\* line 95: the held lock is stale
LockStale(k) == now - gameLocks[k].timestamp > STALE_MS

\* lines 82-87: the entry tryAcquireGameLock stores when it takes the lock
NewLock(playerId) ==
  [locked |-> TRUE, owner |-> playerId, timestamp |-> now, queue |-> <<>>]

\* a tryAcquireGameLock that pushes its closure twice
LockEnqueueTwice(k, c) ==
  MapSet(gameLocks, k, [gameLocks[k] EXCEPT !.queue = Append(Append(@, c), c)])

\* line 99: lock.queue.push(tryAcquireGameLock)
LockEnqueue(k, c) == MapSet(gameLocks, k, [gameLocks[k] EXCEPT !.queue = Append(@, c)])

\* a setTimeout(next, 0) of releaseGameLock is pending for lock k
LockWakePending(k) == \E i \in DOMAIN lockWake : lockCalls[lockWake[i]].key = k

\* lines 76-78: the timeout timer of an acquireGameLock call; NoTimer once it
\* has fired or was cleared
NoTimer == [delay |-> 0, due |-> 0]

\* lines 88-91 run by call c: clearTimeout, resolve (no effect once rejected)
LockResolve(calls, c) ==
  IF calls[c].st = "waiting"
  THEN [calls EXCEPT ![c].st = "held", ![c].timer = NoTimer]
  ELSE calls

LockGranted(calls, c) ==
  IF calls[c].st = "waiting"
  THEN [lockGrants EXCEPT ![calls[c].key] = Append(@, c)]
  ELSE lockGrants

\* lines 80-102: tryAcquireGameLock run for call c of `calls`.  A stale lock
\* is deleted (line 96) and the function runs again (line 97), now taking it.
tryAcquireGameLock(calls, c) ==
  LET k == calls[c].key
  IN IF LockFree(k) \/ LockStale(k)
     THEN /\ gameLocks' = MapSet(MapDelete(gameLocks, k), k, NewLock(calls[c].player))
          /\ lockCalls' = LockResolve(calls, c)
          /\ lockGrants' = LockGranted(calls, c)
     ELSE /\ gameLocks' = LockEnqueue(k, c)
          /\ lockCalls' = calls
          /\ UNCHANGED lockGrants

\* acquireGameLock(gameId, playerId, t): arm the timeout timer (lines 76-78),
\* run tryAcquireGameLock once
acquireGameLock(gameId, playerId, t) ==
  /\ Len(lockCalls) < MaxLockCalls
  /\ LET c == Len(lockCalls) + 1
         k == LockKey(gameId)
     IN tryAcquireGameLock(
          Append(lockCalls,
            [key |-> k, player |-> playerId, st |-> "waiting",
             timer |-> [delay |-> t, due |-> now + t],
             how |-> IF LockFree(k)
                     THEN IF LockWakePending(k) THEN "barge" ELSE "free"
                     ELSE IF LockStale(k) THEN "reclaim" ELSE "queued"]), c)
  /\ UNCHANGED <<serverVars, now, nextCleanup, lockWake, mutexVars, playerQueues, schedVars, lastReturn>>

\* the timer callback setTimeout(next, 0): tryAcquireGameLock of a dequeued closure
lockWakeUp ==
  /\ lockWake # <<>>
  /\ lockWake' = Tail(lockWake)
  /\ tryAcquireGameLock(lockCalls, Head(lockWake))
  /\ UNCHANGED <<serverVars, now, nextCleanup, mutexVars, playerQueues, schedVars, lastReturn>>

\* lines 76-78: the timeout timer fires and rejects the promise
lockTimeout(c) ==
  /\ lockCalls[c].st = "waiting"
  /\ now >= lockCalls[c].timer.due
  /\ lockCalls' = [lockCalls EXCEPT ![c].st = "timedout", ![c].timer = NoTimer]
  /\ UNCHANGED <<serverVars, now, nextCleanup, gameLocks, lockWake, lockGrants, mutexVars, playerQueues, schedVars, lastReturn>>

\* a release that does not look at who owns the lock
LockPresent(k, playerId) == k \in DOMAIN gameLocks

\* line 110: the ownership check of releaseGameLock
LockOwnedBy(k, playerId) == k \in DOMAIN gameLocks /\ gameLocks[k].owner = playerId

\* a release that hands the lock to the head waiter's player at once
releaseGameLockHandsOver(k, playerId) ==
  IF LockOwnedBy(k, playerId)
  THEN IF gameLocks[k].queue # <<>>
       THEN /\ gameLocks' = MapSet(gameLocks, k,
                 [gameLocks[k] EXCEPT !.owner = lockCalls[Head(gameLocks[k].queue)].player,
                                      !.queue = Tail(@)])
            /\ UNCHANGED lockWake
       ELSE /\ gameLocks' = MapDelete(gameLocks, k)
            /\ UNCHANGED lockWake
  ELSE UNCHANGED <<gameLocks, lockWake>>

\* lines 108-121: the registry and timer queue after releaseGameLock(k, playerId)
releaseGameLock(k, playerId) ==
  IF LockOwnedBy(k, playerId)
  THEN IF gameLocks[k].queue # <<>>
       THEN /\ gameLocks' = MapSet(gameLocks, k,
                 [gameLocks[k] EXCEPT !.locked = FALSE, !.owner = Null, !.queue = Tail(@)])
            /\ lockWake' = Append(lockWake, Head(gameLocks[k].queue))
       ELSE /\ gameLocks' = MapDelete(gameLocks, k)
            /\ UNCHANGED lockWake
  ELSE UNCHANGED <<gameLocks, lockWake>>

\* handle.release() by the caller the handle was granted to, first time
lockHandleRelease(c) ==
  /\ lockCalls[c].st = "held"
  /\ lockCalls' = [lockCalls EXCEPT ![c].st = "released"]
  /\ releaseGameLock(lockCalls[c].key, lockCalls[c].player)
  /\ UNCHANGED <<serverVars, now, nextCleanup, lockGrants, mutexVars, playerQueues, schedVars, lastReturn>>

\* handle.release() called again on a handle that was already released
lockHandleReleaseAgain(c) ==
  /\ lockCalls[c].st = "released"
  /\ releaseGameLock(lockCalls[c].key, lockCalls[c].player)
  /\ UNCHANGED <<serverVars, now, nextCleanup, lockCalls, lockGrants, mutexVars, playerQueues, schedVars, lastReturn>>

----------------------------------------------------------------------------
(* executeInThread and the worker pool *)

\* a processNextTask that never looks at the low tier
prioritiesWithoutLow == <<"high", "normal">>

\* a processNextTask that scans the tiers from low to high
prioritiesLowFirst == <<"low", "normal", "high">>

\* line 180: the order in which processNextTask scans the tiers
priorities == <<"high", "normal", "low">>

\* the priority arguments and the units of work callers submit: a unit of
\* work either returns a promise that settles later, or throws when called
TaskPriorities == {"high", "normal", "low"}
TaskKinds == {"async", "throws"}
TaskIds == 1..MaxTasks
\* currentTask: null (no wrapper has this id)
NoTask == 0

\* lines 17-25: the pool built by initializeThreadPool
Threads == 0..(maxThreads - 1)

InitialThreadPool ==
  [i \in Threads |-> [id |-> i, busy |-> FALSE, currentTask |-> NoTask]]

\* the scheduler's part of the state, as the methods below pass it on
Sched ==
  [threadPool |-> threadPool, activeThreads |-> activeThreads,
   playerQueues |-> playerQueues, futures |-> futures]

\* a pool search that never finds an idle worker
NoAvailableThread(pool) == -1

\* lines 136, 185: this.threadPool.find(thread => !thread.busy), -1 for undefined
AvailableThread(pool) ==
  IF \A i \in DOMAIN pool : pool[i].busy THEN -1
  ELSE CHOOSE i \in DOMAIN pool : ~pool[i].busy /\ \A j \in DOMAIN pool : ~pool[j].busy => i <= j

\* a sort that puts a wrapper before the wrappers of equal timestamp
InsertBeforeEqual(sorted, w) ==
  LET k == Cardinality({i \in DOMAIN sorted : sorted[i].timestamp < w.timestamp})
  IN SubSeq(sorted, 1, k) \o <<w>> \o SubSeq(sorted, k + 1, Len(sorted))

\* line 156: queue.sort((a, b) => a.timestamp - b.timestamp), a stable sort
InsertByTimestamp(sorted, w) ==
  LET k == Cardinality({i \in DOMAIN sorted : sorted[i].timestamp <= w.timestamp})
  IN SubSeq(sorted, 1, k) \o <<w>> \o SubSeq(sorted, k + 1, Len(sorted))

RECURSIVE SortByTimestamp(_)
SortByTimestamp(q) ==
  IF q = <<>> THEN <<>>
  ELSE InsertByTimestamp(SortByTimestamp(SubSeq(q, 1, Len(q) - 1)), q[Len(q)])

\* lines 147-157
addToQueue(s, taskWrapper) ==
  LET queue == IF taskWrapper.priority \in DOMAIN s.playerQueues
               THEN s.playerQueues[taskWrapper.priority] ELSE <<>>
  IN [s EXCEPT !.playerQueues =
        MapSet(@, taskWrapper.priority, SortByTimestamp(Append(queue, taskWrapper)))]

\* an executeTask that does not mark the worker busy
ThreadTakesUnmarked(s, th, taskWrapper) ==
  [s EXCEPT !.threadPool[th].currentTask = taskWrapper.id,
            !.activeThreads = @ + 1]

\* lines 160-162: the worker takes the task; currentTask refers to the
\* wrapper, which its id stands for
ThreadTakes(s, th, taskWrapper) ==
  [s EXCEPT !.threadPool[th].busy = TRUE,
            !.threadPool[th].currentTask = taskWrapper.id,
            !.activeThreads = @ + 1]

\* an executeTask whose worker is freed only when the task succeeds
ThreadDoneIfResolved(s, th, outcome) ==
  IF outcome = "resolved"
  THEN [s EXCEPT !.futures[s.threadPool[th].currentTask] = outcome,
                 !.threadPool[th].busy = FALSE,
                 !.threadPool[th].currentTask = NoTask,
                 !.activeThreads = @ - 1]
  ELSE [s EXCEPT !.futures[s.threadPool[th].currentTask] = outcome]

\* an executeTask that frees the worker without counting it out
ThreadDoneCountKept(s, th, outcome) ==
  [s EXCEPT !.futures[s.threadPool[th].currentTask] = outcome,
            !.threadPool[th].busy = FALSE,
            !.threadPool[th].currentTask = NoTask]

\* lines 166-175: the promise of the worker's task settles (resolve of line
\* 166 or reject of line 168), then the finally block frees the worker
ThreadDone(s, th, outcome) ==
  [s EXCEPT !.futures[s.threadPool[th].currentTask] = outcome,
            !.threadPool[th].busy = FALSE,
            !.threadPool[th].currentTask = NoTask,
            !.activeThreads = @ - 1]

\* a processNextTask that serves whichever waiting tier comes last in the scan
WaitingTiersLastFirst(queues) ==
  LET waiting == SelectSeq(priorities, LAMBDA p : p \in DOMAIN queues /\ Len(queues[p]) > 0)
  IN [i \in DOMAIN waiting |-> waiting[Len(waiting) + 1 - i]]

\* a processNextTask that finds no tier waiting
NoWaitingTiers(queues) == <<>>

\* lines 182-184: the tiers, in scan order, whose queue exists and is not empty
WaitingTiers(queues) ==
  SelectSeq(priorities, LAMBDA p : p \in DOMAIN queues /\ Len(queues[p]) > 0)

RECURSIVE executeTask(_, _, _)
RECURSIVE processNextTask(_)

\* lines 159-177.  A task that throws when called is caught at line 167
\* before the first await, so the finally block and its processNextTask run
\* within the same call; any other task leaves the worker busy until its
\* promise settles (taskSettles below).
executeTask(s, th, taskWrapper) ==
  IF taskWrapper.task = "throws"
  THEN processNextTask(ThreadDone(ThreadTakes(s, th, taskWrapper), th, "rejected"))
  ELSE ThreadTakes(s, th, taskWrapper)

\* lines 179-193, on the state `this` the method is called in
processNextTask(s) ==
  LET Scan(this) ==
        LET tiers == WaitingTiers(this.playerQueues)
            availableThread == AvailableThread(this.threadPool)
        IN IF tiers = <<>> \/ availableThread = -1 THEN this
           ELSE LET queue == this.playerQueues[Head(tiers)]
                IN executeTask([this EXCEPT !.playerQueues[Head(tiers)] = Tail(queue)],
                               availableThread, Head(queue))
  IN CHOOSE after \in {Scan(this) : this \in {s}} : TRUE

\* the scheduler variables after a method has run
SchedBecomes(s) ==
  \E this \in {s} :
    /\ threadPool' = this.threadPool
    /\ activeThreads' = this.activeThreads
    /\ playerQueues' = this.playerQueues
    /\ futures' = this.futures

\* the tasks waiting in the tier queues
QueuedTasks(queues) ==
  UNION {{queues[p][i].id : i \in DOMAIN queues[p]} : p \in DOMAIN queues}

\* the ids of the calls whose promise is pending
InFlight == {t \in TaskIds : futures[t] = "pending"}

\* lines 124-145: executeInThread(task, priority).  The call is numbered with
\* the smallest id no pending call uses.  The log entry of the call keeps its
\* priority and the number of idle workers it found; the log starts again
\* when a task settles, here a task that throws.
executeInThread(task, priority) ==
  /\ InFlight # TaskIds
  /\ LET id == CHOOSE t \in TaskIds \ InFlight : \A u \in TaskIds \ InFlight : t <= u
         taskWrapper == [id |-> id, task |-> task, priority |-> priority, timestamp |-> now]
         s == [Sched EXCEPT !.futures[id] = "pending"]
         availableThread == AvailableThread(threadPool)
         call == [id |-> id, priority |-> priority,
                  idle |-> Cardinality({i \in DOMAIN threadPool : ~threadPool[i].busy})]
     IN IF availableThread # -1
        THEN /\ SchedBecomes(executeTask(s, availableThread, taskWrapper))
             /\ submitLog' = IF task = "throws" THEN <<>> ELSE Append(submitLog, call)
        ELSE /\ SchedBecomes(addToQueue(s, taskWrapper))
             /\ submitLog' = Append(submitLog, call)
  /\ UNCHANGED <<serverVars, now, nextCleanup, mutexVars, lockVars, lastReturn>>

\* lines 165-176: the promise returned by the task of worker th settles,
\* fulfilled ("resolved") or rejected
taskSettles(th, outcome) ==
  /\ threadPool[th].busy
  /\ SchedBecomes(processNextTask(ThreadDone(Sched, th, outcome)))
  /\ submitLog' = <<>>
  /\ UNCHANGED <<serverVars, now, nextCleanup, mutexVars, lockVars, lastReturn>>

----------------------------------------------------------------------------
(* detectDeadlocks *)

\* the orders in which `for (... of this.mutexes)` and this.mutexes.keys()
\* can go through the registry: a Map iterates in insertion order, which
\* the function `mutexes` does not keep, so every order of its keys is taken
MutexKeyOrders ==
  {order \in [1..Cardinality(DOMAIN mutexes) -> DOMAIN mutexes] :
     \A i, j \in DOMAIN order : order[i] = order[j] => i = j}

\* line 256: Array.from(currentPath).indexOf(current)
IndexOf(path, x) == CHOOSE i \in DOMAIN path : path[i] = x

RECURSIVE dfs(_, _, _)
RECURSIVE dfsEach(_, _, _)

\* lines 254-285: dfs(current) on the walk state w = [visited, currentPath,
\* result]; currentPath is a Set, kept here in insertion order
dfs(current, w, order) ==
  IF current \in SeqToSet(w.currentPath)
  THEN [w EXCEPT !.result = SubSeq(w.currentPath, IndexOf(w.currentPath, current),
                                   Len(w.currentPath))]
  ELSE IF current \in w.visited
  THEN [w EXCEPT !.result = <<>>]
  ELSE LET entered == [w EXCEPT !.visited = @ \cup {current},
                                !.currentPath = Append(@, current),
                                !.result = <<>>]
           owner == IF current \in DOMAIN mutexes THEN mutexes[current].owner ELSE Null
           ownerResources == SelectSeq(order, LAMBDA id : mutexes[id].owner = owner)
           walked == IF owner # Null THEN dfsEach(ownerResources, entered, order) ELSE entered
       IN IF walked.result # <<>> THEN walked
          ELSE [walked EXCEPT !.currentPath = SelectSeq(@, LAMBDA id : id # current)]

\* lines 273-278: the loop over ownerResources, left at the first cycle found
dfsEach(resources, w, order) ==
  IF resources = <<>> THEN [w EXCEPT !.result = <<>>]
  ELSE LET one == dfs(Head(resources), w, order)
       IN IF one.result # <<>> THEN one ELSE dfsEach(Tail(resources), one, order)

\* lines 252-288: detectCycle(resourceId, visited)
detectCycle(resourceId, visited, order) ==
  dfs(resourceId, [visited |-> visited, currentPath |-> <<>>, result |-> <<>>], order)

RECURSIVE detectFrom(_, _, _, _)
\* lines 239-246: the loop of detectDeadlocks over the registry, from entry i on
detectFrom(i, visited, deadlocks, order) ==
  IF i > Len(order) THEN deadlocks
  ELSE IF mutexes[order[i]].locked /\ order[i] \notin visited
  THEN LET found == detectCycle(order[i], visited, order)
       IN detectFrom(i + 1, found.visited,
                     IF Len(found.result) > 0 THEN Append(deadlocks, found.result)
                     ELSE deadlocks, order)
  ELSE detectFrom(i + 1, visited, deadlocks, order)

\* lines 235-250: the list detectDeadlocks() returns
detectDeadlocks(order) == detectFrom(1, {}, <<>>, order)

\* a detector that unlocks every mutex it walks over
callDetectDeadlocksAndUnlock ==
  /\ lastReturn' = [op |-> "detectDeadlocks", value |-> <<>>]
  /\ mutexes' = [r \in DOMAIN mutexes |-> [mutexes[r] EXCEPT !.locked = FALSE]]
  /\ UNCHANGED <<serverVars, now, nextCleanup, mutexCalls, mutexWake, mutexGrants, lockVars,
                 playerQueues, schedVars>>

\* a call of detectDeadlocks(): the method reads this.mutexes and builds its
\* visited set, path and result in locals
callDetectDeadlocks ==
  \E order \in MutexKeyOrders :
    /\ lastReturn' = [op |-> "detectDeadlocks", value |-> detectDeadlocks(order)]
    /\ UNCHANGED <<serverVars, now, nextCleanup, mutexVars, lockVars, playerQueues, schedVars>>

----------------------------------------------------------------------------
(* the player queues of a game, and getStats *)

\* the players callers pass to the queue methods
Participants == {"p1", "p2", "p3"}

\* lines 197, 213, 224: `queue_${gameId}`
QueueKey(gameId) == "queue_" \o gameId
QueueKeys == {QueueKey(g) : g \in Matches}

\* Array.prototype.indexOf: the 0-based index of the first occurrence, -1 if none
indexOf(queue, x) ==
  IF \A i \in DOMAIN queue : queue[i] # x THEN -1
  ELSE (CHOOSE i \in DOMAIN queue : queue[i] = x /\ \A j \in 1..(i - 1) : queue[j] # x) - 1

\* a push that does not look whether the player is queued
PushAlways(queue, playerId) == Append(queue, playerId)

\* lines 205-207: if (!queue.includes(playerId)) queue.push(playerId)
PushIfAbsent(queue, playerId) ==
  IF playerId \in SeqToSet(queue) THEN queue ELSE Append(queue, playerId)

\* lines 196-210
addPlayerToQueue(gameId, playerId) ==
  LET queueKey == QueueKey(gameId)
      queue == IF queueKey \in DOMAIN playerQueues THEN playerQueues[queueKey] ELSE <<>>
      pushed == PushIfAbsent(queue, playerId)
  IN /\ playerQueues' = MapSet(playerQueues, queueKey, pushed)
     /\ lastReturn' = [op |-> "addPlayerToQueue", value |-> indexOf(pushed, playerId)]
     /\ UNCHANGED <<serverVars, now, nextCleanup, mutexVars, lockVars, schedVars>>

\* a queue served from its back
QueueBack(queue) == queue[Len(queue)]

\* line 217: queue.shift(), the value returned and the queue left
QueueFront(queue) == Head(queue)
QueueShifted(queue) == Tail(queue)

\* lines 212-221
getNextPlayer(gameId) ==
  LET queueKey == QueueKey(gameId)
  IN /\ IF queueKey \in DOMAIN playerQueues /\ Len(playerQueues[queueKey]) > 0
        THEN /\ lastReturn' = [op |-> "getNextPlayer", value |-> QueueFront(playerQueues[queueKey])]
             /\ playerQueues' = MapSet(playerQueues, queueKey, QueueShifted(playerQueues[queueKey]))
        ELSE /\ lastReturn' = [op |-> "getNextPlayer", value |-> Null]
             /\ UNCHANGED playerQueues
     /\ UNCHANGED <<serverVars, now, nextCleanup, mutexVars, lockVars, schedVars>>

\* a splice that cuts the queue off at the index
SpliceToEnd(queue, index) == SubSeq(queue, 1, index)

\* line 230: queue.splice(index, 1), index 0-based
SpliceOne(queue, index) ==
  SubSeq(queue, 1, index) \o SubSeq(queue, index + 2, Len(queue))

\* lines 223-233
removePlayerFromQueue(gameId, playerId) ==
  LET queueKey == QueueKey(gameId)
  IN /\ IF queueKey \in DOMAIN playerQueues /\ indexOf(playerQueues[queueKey], playerId) > -1
        THEN playerQueues' =
               MapSet(playerQueues, queueKey,
                      SpliceOne(playerQueues[queueKey], indexOf(playerQueues[queueKey], playerId)))
        ELSE UNCHANGED playerQueues
     /\ lastReturn' = [op |-> "removePlayerFromQueue", value |-> Null]
     /\ UNCHANGED <<serverVars, now, nextCleanup, mutexVars, lockVars, schedVars>>

RECURSIVE SumOfLengths(_, _)
\* line 317: Array.from(values).reduce((total, queue) => total + queue.length, 0)
SumOfLengths(queues, keys) ==
  IF keys = {} THEN 0
  ELSE LET k == CHOOSE x \in keys : TRUE
       IN Len(queues[k]) + SumOfLengths(queues, keys \ {k})

\* lines 311-321: the object getStats() returns
getStats ==
  [activeThreads |-> activeThreads,
   maxThreads |-> maxThreads,
   activeMutexes |-> Cardinality(DOMAIN mutexes),
   activeGameLocks |-> Cardinality(DOMAIN gameLocks),
   queuedTasks |-> SumOfLengths(playerQueues, DOMAIN playerQueues),
   threadUtilization |-> (activeThreads * 100) \div maxThreads]

\* a call of getStats()
callGetStats ==
  /\ lastReturn' = [op |-> "getStats", value |-> getStats]
  /\ UNCHANGED <<serverVars, now, nextCleanup, mutexVars, lockVars, playerQueues, schedVars>>

----------------------------------------------------------------------------
(* UDPLikeCommunicator (src/server.js): reliable messages *)

Sockets == {"s1", "s2"}

\* line 46: Date.now() + Math.random().  The sum is a double: at the size of
\* Date.now() it keeps only a few bits of the random fraction, so two calls
\* in the same millisecond can get the same id.  IdsPerMs ids exist per
\* millisecond here, and a call gets any of them.
MessageId(t, fraction) == t * IdsPerMs + fraction
Fractions == 0..(IdsPerMs - 1)

\* no setTimeout of the call is pending
NoMsgTimer == [due |-> 0, first |-> FALSE]

\* the ids of the messages sent so far
SentIds == {sends[c].id : c \in DOMAIN sends}

\* this.messageQueue.get(socketId), an empty Map when there is none
PlayerQueue(socketId) ==
  IF socketId \in DOMAIN messageQueue THEN messageQueue[socketId] ELSE EmptyMap

\* lines 45-66: sendReliableMessage(socketId, event, data).  The call stores
\* the message, emits it, arms the first timer and stores resolve and the
\* timer handle under the message id.
sendReliableMessage(socketId, fraction) ==
  /\ Len(sends) < MaxSends
  /\ LET messageId == MessageId(now, fraction)
         c == Len(sends) + 1
     IN /\ messageQueue' = MapSet(messageQueue, socketId,
                               MapSet(PlayerQueue(socketId), messageId, [retries |-> 0]))
        /\ acknowledgments' = MapSet(acknowledgments, messageId, [call |-> c])
        /\ sends' = Append(sends,
                       [socket |-> socketId, id |-> messageId, promise |-> "pending",
                        timer |-> [due |-> now + timeoutMs, first |-> TRUE],
                        emits |-> <<now>>, acks |-> {}])
  /\ UNCHANGED <<handlers, now, nextCleanup, mutexVars, lockVars, playerQueues, schedVars, lastReturn>>

\* line 74: message.retries < this.retryAttempts
RetryAllowed(retries) == retries < retryAttempts

\* lines 68-84: a timer of call c fires and runs handleMessageTimeout with
\* the socketId, messageId and reject of that call
handleMessageTimeout(c) ==
  /\ sends[c].timer # NoMsgTimer
  /\ now >= sends[c].timer.due
  /\ LET socketId == sends[c].socket
         messageId == sends[c].id
     IN IF messageId \in DOMAIN PlayerQueue(socketId)
        THEN LET retries == messageQueue[socketId][messageId].retries + 1
             IN IF RetryAllowed(retries)
                THEN /\ messageQueue' = [messageQueue EXCEPT ![socketId][messageId].retries = retries]
                     /\ sends' = [sends EXCEPT ![c].emits = Append(@, now),
                                               ![c].timer = [due |-> now + timeoutMs, first |-> FALSE]]
                ELSE /\ messageQueue' = [messageQueue EXCEPT ![socketId] = MapDelete(@, messageId)]
                     /\ sends' = [sends EXCEPT ![c].timer = NoMsgTimer,
                                               ![c].promise = IF @ = "pending" THEN "rejected" ELSE @]
        ELSE /\ sends' = [sends EXCEPT ![c].timer = NoMsgTimer]
             /\ UNCHANGED messageQueue
  /\ UNCHANGED <<acknowledgments, handlers, now, nextCleanup, mutexVars, lockVars, playerQueues,
                 schedVars, lastReturn>>

\* lines 94-97: the message is deleted from the queue of the given socket
QueueAfterAck(socketId, messageId) ==
  IF socketId \in DOMAIN messageQueue
  THEN [messageQueue EXCEPT ![socketId] = MapDelete(@, messageId)]
  ELSE messageQueue

\* lines 86-98: handleAcknowledgment(socketId, messageId).  Each call whose
\* promise is pending notes the sockets that acknowledged its id.  clearTimeout acts
\* on the handle stored by sendReliableMessage, the first timer of the call;
\* the timers armed by handleMessageTimeout are stored nowhere.
handleAcknowledgment(socketId, messageId) ==
  /\ messageId \in SentIds
  /\ LET noted == [c \in DOMAIN sends |->
                     IF sends[c].id = messageId /\ sends[c].promise = "pending"
                     THEN [sends[c] EXCEPT !.acks = @ \cup {socketId}] ELSE sends[c]]
     IN IF messageId \in DOMAIN acknowledgments
        THEN LET c == acknowledgments[messageId].call
             IN /\ sends' = [noted EXCEPT
                                ![c].timer = IF @.first THEN NoMsgTimer ELSE @,
                                ![c].promise = IF @ = "pending" THEN "resolved" ELSE @]
                /\ acknowledgments' = MapDelete(acknowledgments, messageId)
        ELSE /\ sends' = noted
             /\ UNCHANGED acknowledgments
  /\ messageQueue' = QueueAfterAck(socketId, messageId)
  /\ UNCHANGED <<handlers, now, nextCleanup, mutexVars, lockVars, playerQueues, schedVars, lastReturn>>

----------------------------------------------------------------------------
(* socket.on('joinRoom') (src/server.js) *)

\* the outcomes of the room operations between acquire and release: the
\* player is added, addPlayer returns false, or a statement throws
RoomOutcomes == {"joined", "full", "threw"}

\* the handler is suspended at `await acquireGameLock(...)` and the promise has settled
HandlerReady ==
  \E c \in DOMAIN handlers :
    handlers[c].st = "awaiting" /\ lockCalls[c].st \in {"held", "timedout"}

\* server.js lines 470-475: the handler runs up to its await; acquireGameLock
\* is called with its default timeout of 3000 ms (concurrency-manager.js line 73)
joinRoom(roomId, playerId) ==
  /\ Len(lockCalls) < MaxLockCalls
  /\ LET c == Len(lockCalls) + 1
         k == LockKey(roomId)
     IN /\ tryAcquireGameLock(
             Append(lockCalls,
               [key |-> k, player |-> playerId, st |-> "waiting",
                timer |-> [delay |-> JOIN_TIMEOUT_MS, due |-> now + JOIN_TIMEOUT_MS],
                how |-> IF LockFree(k)
                        THEN IF LockWakePending(k) THEN "barge" ELSE "free"
                        ELSE IF LockStale(k) THEN "reclaim" ELSE "queued"]), c)
        /\ handlers' = MapSet(handlers, c, [st |-> "awaiting", room |-> "none", releases |-> 0])
  /\ UNCHANGED <<commVars, now, nextCleanup, lockWake, mutexVars, playerQueues, schedVars, lastReturn>>

\* a handler that releases at the end of the try body, not in a finally block
ReleaseCallsInBody(outcome) == IF outcome = "threw" THEN 0 ELSE 1

\* lines 477-519: the finally block calls lock.release() however the body ends
ReleaseCalls(outcome) == 1

\* lines 477-523: the handler resumes with the lock handle, runs the room
\* operations and the finally block, and for a thrown error the outer catch
joinRoomResumes(c) ==
  /\ c \in DOMAIN handlers
  /\ handlers[c].st = "awaiting"
  /\ lockCalls[c].st = "held"
  /\ \E outcome \in RoomOutcomes :
       /\ handlers' = [handlers EXCEPT ![c] =
                         [st |-> "finished", room |-> outcome, releases |-> ReleaseCalls(outcome)]]
       /\ IF ReleaseCalls(outcome) = 1
          THEN /\ lockCalls' = [lockCalls EXCEPT ![c].st = "released"]
               /\ releaseGameLock(lockCalls[c].key, lockCalls[c].player)
          ELSE UNCHANGED <<lockCalls, gameLocks, lockWake>>
  /\ UNCHANGED <<commVars, now, nextCleanup, lockGrants, mutexVars, playerQueues, schedVars, lastReturn>>

\* lines 520-523: the await throws the timeout error and the outer catch runs
joinRoomFails(c) ==
  /\ c \in DOMAIN handlers
  /\ handlers[c].st = "awaiting"
  /\ lockCalls[c].st = "timedout"
  /\ handlers' = [handlers EXCEPT ![c].st = "finished"]
  /\ UNCHANGED <<commVars, now, nextCleanup, lockVars, mutexVars, playerQueues, schedVars, lastReturn>>

----------------------------------------------------------------------------
(* cleanup and the clock *)

\* a sweep that applies the 10 s staleness threshold
SweptLocksStale ==
  [k \in {x \in DOMAIN gameLocks : ~(now - gameLocks[x].timestamp > STALE_MS)} |-> gameLocks[k]]

\* lines 295-300: the game locks that survive a sweep
SweptLocks ==
  [k \in {x \in DOMAIN gameLocks : ~(now - gameLocks[x].timestamp > TTL_MS)} |-> gameLocks[k]]

\* a sweep that also deletes the queues holding a single entry
SweptQueuesShort ==
  [k \in {x \in DOMAIN playerQueues : Len(playerQueues[x]) > 1} |-> playerQueues[k]]

\* lines 303-307: the queues that survive a sweep
SweptQueues ==
  [k \in {x \in DOMAIN playerQueues : Len(playerQueues[x]) # 0} |-> playerQueues[k]]

\* the setInterval callback of startCleanupInterval
cleanup ==
  /\ now = nextCleanup
  /\ nextCleanup' = nextCleanup + CLEANUP_INTERVAL_MS
  /\ gameLocks' = SweptLocks
  /\ playerQueues' = SweptQueues
  /\ UNCHANGED <<serverVars, now, mutexVars, lockCalls, lockWake, lockGrants, schedVars, lastReturn>>

\* some timer is due at the current time
TimerDue ==
  \/ mutexWake # <<>>
  \/ lockWake # <<>>
  \/ nextCleanup <= now
  \/ \E c \in DOMAIN mutexCalls :
       mutexCalls[c].st = "waiting" /\ now >= mutexCalls[c].deadline
  \/ \E c \in DOMAIN lockCalls :
       lockCalls[c].st = "waiting" /\ now >= lockCalls[c].timer.due
  \/ \E c \in DOMAIN sends :
       sends[c].timer # NoMsgTimer /\ now >= sends[c].timer.due

Tick ==
  /\ now < MaxNow
  /\ ~TimerDue
  /\ now' = now + TickMs
  /\ UNCHANGED <<serverVars, nextCleanup, mutexVars, lockVars, playerQueues, schedVars, lastReturn>>

----------------------------------------------------------------------------
\* the clock in steps of the message timeout
TickShort ==
  /\ now < MaxShortNow
  /\ ~TimerDue
  /\ now' = now + timeoutMs
  /\ UNCHANGED <<serverVars, nextCleanup, mutexVars, lockVars, playerQueues, schedVars, lastReturn>>

Init ==
  /\ now = 0
  /\ nextCleanup = CLEANUP_INTERVAL_MS
  /\ mutexes = EmptyMap
  /\ mutexCalls = <<>>
  /\ mutexWake = <<>>
  /\ mutexGrants = [r \in Resources |-> <<>>]
  /\ gameLocks = EmptyMap
  /\ lockCalls = <<>>
  /\ lockWake = <<>>
  /\ lockGrants = [k \in LockKeys |-> <<>>]
  /\ playerQueues = EmptyMap
  /\ threadPool = InitialThreadPool
  /\ activeThreads = 0
  /\ futures = [t \in TaskIds |-> "none"]
  /\ submitLog = <<>>
  /\ lastReturn = [op |-> "none", value |-> Null]
  /\ messageQueue = EmptyMap
  /\ acknowledgments = EmptyMap
  /\ sends = <<>>
  /\ handlers = EmptyMap

\* the mutex registry used as its handles intend: each handle released once
MutexNext ==
  \/ \E r \in Resources, t \in Timeouts : acquireMutex(r, t)
  \/ tryAcquire
  \/ \E c \in DOMAIN mutexCalls : mutexTimeout(c)
  \/ \E c \in DOMAIN mutexCalls : mutexHandleRelease(c)
  \/ cleanup
  \/ Tick

SpecMutex == Init /\ [][MutexNext]_vars

\* the mutex registry with handles that may be released again
MutexAnyNext ==
  \/ MutexNext
  \/ \E c \in DOMAIN mutexCalls : mutexHandleReleaseAgain(c)

SpecMutexAny == Init /\ [][MutexAnyNext]_vars

\* the match locks used as their handles intend: each handle released once
LockNext ==
  \/ \E g \in Matches, pl \in Players, t \in Timeouts : acquireGameLock(g, pl, t)
  \/ lockWakeUp
  \/ \E c \in DOMAIN lockCalls : lockTimeout(c)
  \/ \E c \in DOMAIN lockCalls : lockHandleRelease(c)
  \/ cleanup
  \/ Tick

SpecLock == Init /\ [][LockNext]_vars

\* the match locks with handles that may be released again
LockAnyNext ==
  \/ LockNext
  \/ \E c \in DOMAIN lockCalls : lockHandleReleaseAgain(c)

SpecLockAny == Init /\ [][LockAnyNext]_vars

\* the two lock primitives: a run uses the mutexes or the match locks, which
\* share nothing but the clock
AcquireNext ==
  \/ MutexNext /\ lockCalls = <<>>
  \/ LockNext /\ mutexCalls = <<>>

SpecAcquire == Init /\ [][AcquireNext]_vars

\* the worker pool: units of work are submitted and settle
SchedNext ==
  \/ \E task \in TaskKinds, priority \in TaskPriorities : executeInThread(task, priority)
  \/ \E th \in Threads, outcome \in {"resolved", "rejected"} : taskSettles(th, outcome)

SpecSched == Init /\ [][SchedNext]_vars

\* the worker pool where the promise of every task a worker runs settles
SpecSchedFair ==
  SpecSched /\ \A th \in Threads : WF_vars(\E outcome \in {"resolved", "rejected"} : taskSettles(th, outcome))

\* the worker pool with the clock and the cleanup sweep
SchedTimedNext ==
  \/ SchedNext
  \/ cleanup
  \/ Tick

SpecSchedTimed == Init /\ [][SchedTimedNext]_vars

\* the worker pool when the work given to worker 0 may never complete: only
\* the promises of the work on the other workers are sure to settle
SpecSchedHang ==
  SpecSched /\ \A th \in Threads \ {0} :
                 WF_vars(\E outcome \in {"resolved", "rejected"} : taskSettles(th, outcome))

\* the player queues, the statistics, the clock and the cleanup sweep
TurnNext ==
  \/ \E gameId \in Matches, playerId \in Participants : addPlayerToQueue(gameId, playerId)
  \/ \E gameId \in Matches : getNextPlayer(gameId)
  \/ \E gameId \in Matches, playerId \in Participants : removePlayerFromQueue(gameId, playerId)
  \/ callGetStats
  \/ cleanup
  \/ Tick

SpecTurn == Init /\ [][TurnNext]_vars

\* the Map of queues as the worker pool uses it and as the player queues use
\* it, each with the clock and the cleanup sweep
QueuesNext ==
  \/ SchedTimedNext /\ lastReturn.op = "none" /\ DOMAIN playerQueues \cap QueueKeys = {}
  \/ TurnNext /\ \A t \in TaskIds : futures[t] = "none"

SpecQueues == Init /\ [][QueuesNext]_vars

\* the communicator: sends, acknowledgments from any socket, timers
CommNext ==
  \/ \E socketId \in Sockets, fraction \in Fractions : sendReliableMessage(socketId, fraction)
  \/ \E c \in DOMAIN sends : handleMessageTimeout(c)
  \/ \E socketId \in Sockets, messageId \in SentIds : handleAcknowledgment(socketId, messageId)
  \/ TickShort

SpecComm == Init /\ [][CommNext]_vars

\* joinRoom handlers next to other callers of acquireGameLock that hold a
\* lock for a while.  A handler whose promise has settled resumes before
\* any other callback runs (its continuation is a microtask).
JoinNext ==
  IF HandlerReady
  THEN \/ \E c \in DOMAIN lockCalls : joinRoomResumes(c)
       \/ \E c \in DOMAIN lockCalls : joinRoomFails(c)
  ELSE \/ \E roomId \in Matches, playerId \in Players : joinRoom(roomId, playerId)
       \/ \E gameId \in Matches, playerId \in Players, t \in Timeouts :
            acquireGameLock(gameId, playerId, t)
       \/ lockWakeUp
       \/ \E c \in DOMAIN lockCalls : lockTimeout(c)
       \/ \E c \in DOMAIN lockCalls \ DOMAIN handlers : lockHandleRelease(c)
       \/ TickShort

SpecJoin == Init /\ [][JoinNext]_vars

\* the mutex registry with calls of the deadlock detector
DetectNext ==
  \/ MutexNext
  \/ callDetectDeadlocks

SpecDetect == Init /\ [][DetectNext]_vars

----------------------------------------------------------------------------
(* Vocabulary of the properties *)

\* the player queue of a game, empty when the game has none
TurnQueue(queues, gameId) ==
  IF QueueKey(gameId) \in DOMAIN queues THEN queues[QueueKey(gameId)] ELSE <<>>

NoDuplicates(queue) == \A i, j \in DOMAIN queue : queue[i] = queue[j] => i = j

\* the players in both queues stand in the same order in both
OrderKept(before, after) ==
  \A x, y \in SeqToSet(before) \cap SeqToSet(after) :
    indexOf(before, x) < indexOf(before, y) => indexOf(after, x) < indexOf(after, y)

\* the players only in the later queue stand behind all those in both
NewAtBack(before, after) ==
  \A x \in SeqToSet(after) \ SeqToSet(before), y \in SeqToSet(before) \cap SeqToSet(after) :
    indexOf(after, y) < indexOf(after, x)

\* the other games' queues are as they were
OtherQueuesKept(gameId) ==
  \A k \in (DOMAIN playerQueues \cup DOMAIN playerQueues') \ {QueueKey(gameId)} :
    /\ k \in DOMAIN playerQueues /\ k \in DOMAIN playerQueues'
    /\ playerQueues'[k] = playerQueues[k]

\* the socket the message of call c was sent to has acknowledged its id
Acknowledged(c) == sends[c].socket \in sends[c].acks

\* call c was sent, retried and given up as an unacknowledged message should be
SentThreeTimesThenRejected(c) ==
  /\ Len(sends[c].emits) <= retryAttempts
  /\ \A i \in 1..(Len(sends[c].emits) - 1) :
       sends[c].emits[i + 1] = sends[c].emits[i] + timeoutMs
  /\ sends[c].timer = NoMsgTimer =>
       /\ sends[c].promise = "rejected"
       /\ Len(sends[c].emits) = retryAttempts
       /\ sends[c].id \notin DOMAIN PlayerQueue(sends[c].socket)

\* the call that holds game lock k: the one granted last, its handle not released
LockHolder(k) == lockGrants[k][Len(lockGrants[k])]
LockFreshlyHeld(k) ==
  /\ k \in DOMAIN gameLocks
  /\ gameLocks[k].locked
  /\ now - gameLocks[k].timestamp <= STALE_MS
  /\ lockGrants[k] # <<>>
  /\ lockCalls[LockHolder(k)].st = "held"

\* the number of task wrappers waiting in the high, normal and low queues
WaitingInTiers ==
  SumOfLengths(playerQueues, DOMAIN playerQueues \cap TaskPriorities)

MutexCallsOn(r) == {c \in DOMAIN mutexCalls : mutexCalls[c].res = r}
MutexHolders(r) == {c \in MutexCallsOn(r) : mutexCalls[c].st = "held"}
MutexGrantedCalls(r) == {c \in MutexCallsOn(r) : mutexCalls[c].st \in {"held", "released"}}

LockCallsOn(k) == {c \in DOMAIN lockCalls : lockCalls[c].key = k}
LockHolders(k) == {c \in LockCallsOn(k) : lockCalls[c].st = "held"}

\* the elements of a finite set of numbers as an ascending sequence
RECURSIVE Ascending(_)
Ascending(S) ==
  IF S = {} THEN <<>>
  ELSE LET m == CHOOSE x \in S : \A y \in S : x <= y
       IN <<m>> \o Ascending(S \ {m})

IsPrefix(s, t) == Len(s) <= Len(t) /\ \A i \in DOMAIN s : s[i] = t[i]

\* no call on r has timed out, and none was granted between a release and a wake-up
MutexUndisturbed(r) ==
  \A c \in MutexCallsOn(r) : mutexCalls[c].st # "timedout" /\ mutexCalls[c].how # "barge"

\* nothing is held or pending on r: no registry entry, no wake-up scheduled
MutexQuiet(r) == r \notin DOMAIN mutexes /\ ~MutexWakePending(r)

\* the calls waiting in the queue of resource r whose promise is pending
MutexLiveWaiters(r) ==
  IF r \in DOMAIN mutexes
  THEN {c \in SeqToSet(mutexes[r].queue) : mutexCalls[c].st = "waiting"}
  ELSE {}

\* R1 and R2 are each held by a caller, and each has a caller waiting in its
\* queue: the holder of the one waiting for the other
CrossedWait ==
  /\ MutexHolders("R1") # {} /\ MutexHolders("R2") # {}
  /\ MutexLiveWaiters("R1") # {} /\ MutexLiveWaiters("R2") # {}

\* the tasks waiting in a tier queue, and the tasks a worker is running
Queued == QueuedTasks(playerQueues)
Running == {threadPool[th].currentTask : th \in {i \in Threads : threadPool[i].busy}}

\* the wrappers waiting in the tier queues
QueuedWrappers(queues) ==
  UNION {{queues[p][i] : i \in DOMAIN queues[p]} : p \in DOMAIN queues}

\* position of a tier in the scan of processNextTask: 1 is served first
Rank(p) == CHOOSE i \in DOMAIN priorities : priorities[i] = p

\* the wrappers a step takes from the tier queues, for a worker to run
Dispatched == {w \in QueuedWrappers(playerQueues) : w.id \notin QueuedTasks(playerQueues')}

\* the queue of a tier, empty when the Map has no entry for it
TierQueue(queues, p) == IF p \in DOMAIN queues THEN queues[p] ELSE <<>>

\* task t waits in the low tier
LowQueued(t) == \E w \in QueuedWrappers(playerQueues) : w.id = t /\ w.priority = "low"

\* a step that submits a task of a tier above low
HigherTierSubmitted ==
  \E task \in TaskKinds, priority \in {"high", "normal"} : executeInThread(task, priority)

\* calls i, i+1, i+2 of the log submit a low, a normal and a high task, the
\* first of them finding exactly one idle worker; no task has settled since
LowNormalHighBatch(i) ==
  /\ i + 2 <= Len(submitLog)
  /\ submitLog[i].priority = "low" /\ submitLog[i].idle = 1
  /\ submitLog[i + 1].priority = "normal"
  /\ submitLog[i + 2].priority = "high"

----------------------------------------------------------------------------
(* C1: for every resourceId at most one acquireMutex caller holds a granted,
   not yet released handle, whatever the interleaving of acquires, timeouts
   and (single) releases. *)
C1_MutualExclusion == \A r \in Resources : Cardinality(MutexHolders(r)) <= 1

C1_Witness ==
  \E r \in Resources :
    /\ Cardinality(MutexHolders(r)) = 1
    /\ \E c \in MutexCallsOn(r) : mutexCalls[c].st = "released"
    /\ \E c \in MutexCallsOn(r) : mutexCalls[c].st = "timedout"
    /\ \E c \in MutexCallsOn(r) : mutexCalls[c].st = "waiting"

(* C2: with a held mutex and three or more waiters enqueued in order on it,
   no timeout expiring and nobody else acquiring, the grants follow the
   enqueue order, and once the resource has come to rest (no entry, no
   wake-up pending) every one of the waiters has been granted. *)
C2_GrantsInEnqueueOrder ==
  \A r \in Resources :
    (/\ MutexUndisturbed(r)
     /\ Cardinality({c \in MutexCallsOn(r) : mutexCalls[c].how = "queued"}) >= 3)
    => /\ IsPrefix(mutexGrants[r], Ascending(MutexCallsOn(r)))
       /\ MutexQuiet(r) => mutexGrants[r] = Ascending(MutexCallsOn(r))

(* C3: while the wake-up of a dequeued head waiter is still pending, no call
   that arrived later than that waiter has been granted the resource. *)
C3_NoBarging ==
  /\ \A i \in DOMAIN mutexWake :
       LET c == mutexWake[i] IN
         mutexCalls[c].st = "waiting" =>
           \A d \in MutexGrantedCalls(mutexCalls[c].res) : d < c
  /\ \A i \in DOMAIN lockWake :
       LET c == lockWake[i] IN
         lockCalls[c].st = "waiting" =>
           \A d \in DOMAIN lockCalls :
             (lockCalls[d].key = lockCalls[c].key /\ lockCalls[d].st \in {"held", "released"})
               => d < c

(* C4: a waiter whose acquireMutex call timed out is in no waiter queue and
   among no scheduled wake-ups, so no release invokes it. *)
C4_TimedOutWaiterRemoved ==
  \A c \in DOMAIN mutexCalls :
    mutexCalls[c].st = "timedout" =>
      /\ c \notin SeqToSet(mutexWake)
      /\ \A r \in DOMAIN mutexes : c \notin SeqToSet(mutexes[r].queue)

(* C5: a timeout cancels the pending grant, so a resource marked held always
   has a caller that was granted it and has not released it yet. *)
C5_HeldHasLiveHolder ==
  /\ \A r \in DOMAIN mutexes : mutexes[r].locked => MutexHolders(r) # {}
  /\ \A k \in DOMAIN gameLocks : gameLocks[k].locked => LockHolders(k) # {}

(* C6: N >= 1 acquireMutex calls on one resourceId with no release and no
   timeout: the first caller holds the lock and the other N-1 are in the
   waiter queue in arrival order. *)
C6_OneHolderRestQueued ==
  \A r \in Resources :
    (/\ MutexCallsOn(r) # {}
     /\ \A c \in MutexCallsOn(r) : mutexCalls[c].st \in {"held", "waiting"})
    => LET first == Ascending(MutexCallsOn(r))[1] IN
       /\ MutexHolders(r) = {first}
       /\ r \in DOMAIN mutexes
       /\ mutexes[r].locked
       /\ mutexes[r].queue = Ascending(MutexCallsOn(r) \ {first})

C6_Witness ==
  \E r \in Resources :
    /\ Cardinality(MutexCallsOn(r)) >= 3
    /\ \A c \in MutexCallsOn(r) : mutexCalls[c].st \in {"held", "waiting"}
    /\ Len(mutexes[r].queue) >= 2

(* C7: a release through a handle that was already released (its caller is
   not the owner any more) leaves the registry entry of the resource (held
   flag, owner, waiter queue) unchanged, for mutexes and for match locks. *)
C7_NonOwnerReleaseNoEffect ==
  [][/\ \A c \in DOMAIN mutexCalls : mutexHandleReleaseAgain(c) => mutexes' = mutexes
     /\ \A c \in DOMAIN lockCalls : lockHandleReleaseAgain(c) => gameLocks' = gameLocks]_vars

(* C8: an acquirer queued on a fresh match lock with a timeout longer than
   the staleness threshold, whose holder never releases and with nobody else
   taking the lock, is granted the lock when it turns stale: its acquire
   does not end in a timeout. *)
C8_StaleLockGrantedToWaiter ==
  [][\A c \in DOMAIN lockCalls :
       (/\ lockCalls[c].st = "waiting"
        /\ lockCalls[c].how = "queued"
        /\ lockCalls[c].timer.delay > STALE_MS
        /\ \A d \in LockCallsOn(lockCalls[c].key) :
              lockCalls[d].st # "released" /\ lockCalls[d].how \in {"free", "queued"})
       => lockCalls'[c].st # "timedout"]_vars

(* C9: when a stale held match lock with a live waiter at the head of its
   queue is taken over, the caller granted the lock is that head waiter. *)
C9_ReclaimGoesToOldestWaiter ==
  [][\A k \in DOMAIN gameLocks :
       (/\ gameLocks[k].locked
        /\ LockStale(k)
        /\ gameLocks[k].queue # <<>>
        /\ lockCalls[Head(gameLocks[k].queue)].st = "waiting"
        /\ lockGrants'[k] # lockGrants[k])
       => lockGrants'[k] = Append(lockGrants[k], Head(gameLocks[k].queue))]_vars

(* C10: a step that takes over a stale held match lock, or a cleanup sweep
   deleting a lock past the TTL, orphans no waiter: every acquirer queued on
   the lock and still pending is afterwards in the queue of the registry
   entry, scheduled for wake-up, or settled. *)
C10_NoOrphanedWaiter ==
  [][\A k \in DOMAIN gameLocks :
       (\/ gameLocks[k].locked /\ LockStale(k)
        \/ nextCleanup' # nextCleanup /\ now - gameLocks[k].timestamp > TTL_MS)
       => \A c \in SeqToSet(gameLocks[k].queue) :
            lockCalls[c].st = "waiting"
            => \/ k \in DOMAIN gameLocks' /\ c \in SeqToSet(gameLocks'[k].queue)
               \/ c \in SeqToSet(lockWake')
               \/ lockCalls'[c].st # "waiting"]_vars

(* C11: with exactly one idle worker and a low, a normal and a high task
   submitted at the same time in that order, the tasks are dispatched in the
   order high, normal, low: the normal task is not dispatched while the high
   one waits, nor the low task while the high or the normal one waits. *)
C11_DispatchedHighNormalLow ==
  \A i \in DOMAIN submitLog :
    LowNormalHighBatch(i) =>
      LET low == submitLog[i].id
          normal == submitLog[i + 1].id
          high == submitLog[i + 2].id
      IN /\ normal \notin Queued => high \notin Queued
         /\ low \notin Queued => (high \notin Queued /\ normal \notin Queued)

(* C11 as the code has it: the low task, submitted first, is dispatched at
   once to the idle worker; the normal and the high task wait, and of these
   two the high one is dispatched no later than the normal one. *)
C11_LowAtOnceThenHighNormal ==
  /\ [](\A i \in DOMAIN submitLog :
         LowNormalHighBatch(i) =>
           /\ submitLog[i].id \in Running
           /\ submitLog[i + 1].id \in Queued
           /\ submitLog[i + 2].id \in Queued)
  /\ [][\A i \in DOMAIN submitLog :
         LowNormalHighBatch(i) =>
           (submitLog[i + 1].id \notin QueuedTasks(playerQueues')
              => submitLog[i + 2].id \notin QueuedTasks(playerQueues'))]_vars

C11_Witness ==
  \E i \in DOMAIN submitLog :
    /\ LowNormalHighBatch(i)
    /\ submitLog[i].id \in Running
    /\ {submitLog[i + 1].id, submitLog[i + 2].id} \subseteq Queued
    /\ activeThreads = maxThreads

(* C12: whenever a step dispatches a task taken from the tier queues, no
   task of a strictly higher tier is left waiting by that step. *)
C12_NoHigherTierWaiting ==
  [][\A w \in Dispatched :
       \A u \in QueuedWrappers(playerQueues') : Rank(u.priority) >= Rank(w.priority)]_vars

C12_Witness ==
  /\ submitLog = <<>>
  /\ activeThreads = maxThreads
  /\ "high" \in DOMAIN playerQueues /\ Len(playerQueues["high"]) = 0
  /\ \E w \in QueuedWrappers(playerQueues) : w.priority = "low"

(* C13: within one tier, queued tasks are dispatched in submission order: a
   step either takes tasks from the head of the tier's queue, leaving the
   others in their order, or puts the task being submitted at its tail. *)
C13_TierIsFifo ==
  [][\A p \in TaskPriorities :
       LET q == TierQueue(playerQueues, p)
           r == TierQueue(playerQueues', p)
       IN \/ \E k \in 0..Len(q) : r = SubSeq(q, k + 1, Len(q))
          \/ /\ Len(r) = Len(q) + 1
             /\ SubSeq(r, 1, Len(q)) = q
             /\ r[Len(r)].id \notin InFlight]_vars

C13_Witness ==
  \E p \in DOMAIN playerQueues :
    /\ Len(playerQueues[p]) >= 2
    /\ playerQueues[p][1].timestamp < playerQueues[p][2].timestamp
    /\ nextCleanup > CLEANUP_INTERVAL_MS

(* C14: each worker runs at most one task, no task runs on two workers, every
   dispatched task whose promise is pending is the task of one busy worker,
   and the number of running tasks, which activeThreads counts, never
   exceeds the size of the pool. *)
C14_OneTaskPerWorker ==
  /\ \A th \in Threads : threadPool[th].busy <=> threadPool[th].currentTask # NoTask
  /\ \A th, other \in Threads :
       (th # other /\ threadPool[th].busy /\ threadPool[other].busy)
         => threadPool[th].currentTask # threadPool[other].currentTask
  /\ Running = InFlight \ Queued
  /\ activeThreads = Cardinality(Running)
  /\ activeThreads <= maxThreads

C14_Witness ==
  /\ activeThreads = maxThreads
  /\ Queued # {}
  /\ \E t \in TaskIds : futures[t] = "resolved"

(* C15: when the task of a worker fails, its own promise is rejected, the
   worker is freed (not busy, no current task, activeThreads one less) when
   nothing is queued, and otherwise takes the next queued task: pool, active
   count and queues end up exactly as after a success.  The promise of no
   other task changes, but for a queued task that is dispatched by this step
   and throws.  A task that throws when called on an idle worker is rejected
   within the call and leaves pool and active count as they were. *)
C15_FailureFreesWorker ==
  [][/\ \A th \in Threads :
          taskSettles(th, "rejected") =>
            LET t == threadPool[th].currentTask
                ok == processNextTask(ThreadDone(Sched, th, "resolved"))
            IN /\ futures'[t] = "rejected"
               /\ Queued = {} =>
                    /\ threadPool'[th] = [id |-> th, busy |-> FALSE, currentTask |-> NoTask]
                    /\ activeThreads' = activeThreads - 1
               /\ threadPool' = ok.threadPool
               /\ activeThreads' = ok.activeThreads
               /\ playerQueues' = ok.playerQueues
               /\ \A u \in TaskIds \ {t} :
                    \/ futures'[u] = futures[u]
                    \/ /\ futures'[u] = "rejected"
                       /\ \E w \in Dispatched : w.id = u /\ w.task = "throws"
     /\ \A priority \in TaskPriorities :
          (executeInThread("throws", priority) /\ AvailableThread(threadPool) # -1) =>
            /\ \E t \in TaskIds \ InFlight :
                 /\ futures'[t] = "rejected"
                 /\ \A u \in TaskIds \ {t} : futures'[u] = futures[u]
            /\ threadPool' = threadPool
            /\ activeThreads' = activeThreads]_vars

C15_Witness ==
  /\ submitLog = <<>>
  /\ \E t \in TaskIds : futures[t] = "rejected"
  /\ activeThreads = maxThreads
  /\ Queued # {}

(* C16: provided every dispatched task eventually completes, every queued
   low task is eventually dispatched, even when high and normal tasks keep
   being submitted. *)
C16_LowNeverStarved ==
  \A t \in TaskIds : LowQueued(t) ~> (t \notin Queued)

(* C16 as the code has it: provided every dispatched task eventually
   completes and the submissions of high and normal tasks come to an end,
   every queued low task is eventually dispatched. *)
C16_LowServedOnceHigherStop ==
  \A t \in TaskIds :
    \/ []<><<HigherTierSubmitted>>_vars
    \/ LowQueued(t) ~> (t \notin Queued)

C16_Witness ==
  /\ \E t \in TaskIds : LowQueued(t)
  /\ \E w \in QueuedWrappers(playerQueues) : w.priority = "high"
  /\ \A th \in Threads : threadPool[th].busy

(* C17: in the state where one owner holds R1 and is queued on R2 while
   another holds R2 and is queued on R1, detectDeadlocks() returns a
   non-empty list with a cycle that includes R1 and R2. *)
C17_CrossedWaitDetected ==
  CrossedWait =>
    \A order \in MutexKeyOrders :
      \E i \in DOMAIN detectDeadlocks(order) :
        {"R1", "R2"} \subseteq SeqToSet(detectDeadlocks(order)[i])

(* C18: when the holder of a mutex releases it while its waiter queue is
   empty, the registry has no entry for the resource afterwards; and as long
   as every acquireMutex call so far was uncontended (granted at once on a
   free resource), the registry holds exactly the resources still held, so
   it is empty once all of them are released. *)
C18_UncontendedLeavesNoEntry ==
  /\ [][\A c \in DOMAIN mutexCalls :
          (/\ mutexHandleRelease(c)
           /\ mutexCalls[c].res \in DOMAIN mutexes
           /\ mutexes[mutexCalls[c].res].queue = <<>>)
          => mutexCalls[c].res \notin DOMAIN mutexes']_vars
  /\ []((\A c \in DOMAIN mutexCalls : mutexCalls[c].how = "free")
         => DOMAIN mutexes = {r \in Resources : MutexHolders(r) # {}})

C18_Witness ==
  /\ Len(mutexCalls) >= 3
  /\ \A c \in DOMAIN mutexCalls :
       mutexCalls[c].how = "free" /\ mutexCalls[c].st = "released"
  /\ \A r \in Resources : Cardinality(MutexCallsOn(r)) >= 1
  /\ mutexes = EmptyMap

(* C19: an acquireMutex call on a resource that is free (no entry, or an
   entry not locked) is granted within the call and is not queued; a call
   made while a caller holds the resource is queued; and a call is granted
   the resource only after the caller granted it before has released. *)
C19_FreeGrantedHeldQueued ==
  /\ [][\A r \in Resources :
          (\E t \in Timeouts : acquireMutex(r, t)) =>
            LET c == Len(mutexCalls) + 1 IN
              /\ MutexFree(r) =>
                   /\ mutexCalls'[c].st = "held"
                   /\ mutexes'[r].locked
                   /\ c \notin SeqToSet(mutexes'[r].queue)
              /\ MutexHolders(r) # {} =>
                   /\ mutexCalls'[c].st = "waiting"
                   /\ mutexes'[r].queue = Append(mutexes[r].queue, c)]_vars
  /\ [](\A r \in Resources :
         \A i \in DOMAIN mutexGrants[r] :
           i < Len(mutexGrants[r]) => mutexCalls[mutexGrants[r][i]].st = "released")

C19_Witness ==
  \E r \in Resources :
    /\ Len(mutexGrants[r]) >= 2
    /\ mutexCalls[mutexGrants[r][1]].how = "free"
    /\ mutexCalls[mutexGrants[r][1]].st = "released"
    /\ mutexCalls[mutexGrants[r][2]].how = "queued"
    /\ mutexCalls[mutexGrants[r][2]].st = "held"

(* C20: every acquireMutex and acquireGameLock call settles exactly once,
   with a grant or with a timeout failure (a settled call never changes
   between the two nor becomes pending again), and it settles no later than
   its timeout after the call: no call is pending past its deadline. *)
C20_SettlesOnceByDeadline ==
  /\ [][/\ \A c \in DOMAIN mutexCalls :
            /\ mutexCalls[c].st = "timedout" => mutexCalls'[c].st = "timedout"
            /\ mutexCalls[c].st \in {"held", "released"}
                 => mutexCalls'[c].st \in {"held", "released"}
        /\ \A c \in DOMAIN lockCalls :
            /\ lockCalls[c].st = "timedout" => lockCalls'[c].st = "timedout"
            /\ lockCalls[c].st \in {"held", "released"}
                 => lockCalls'[c].st \in {"held", "released"}]_vars
  /\ [](/\ \A c \in DOMAIN mutexCalls :
            mutexCalls[c].st = "waiting" => now <= mutexCalls[c].deadline
        /\ \A c \in DOMAIN lockCalls :
            lockCalls[c].st = "waiting" => now <= lockCalls[c].timer.due)

C20_Witness ==
  /\ \E c \in DOMAIN lockCalls : lockCalls[c].st = "timedout"
  /\ \E c \in DOMAIN lockCalls : lockCalls[c].st = "released"
  /\ \E c \in DOMAIN lockCalls :
       lockCalls[c].st = "waiting" /\ now = lockCalls[c].timer.due

----------------------------------------------------------------------------
(* C21: every promise executeInThread returns settles, with a result or an   *)
(* error, also when the work given to some worker never completes: no task   *)
(* stays pending for ever.                                                    *)
C21_EveryFutureSettles ==
  \A t \in TaskIds : (futures[t] = "pending") ~> (futures[t] # "pending")

(* C22: addPlayerToQueue appends at most once: no player queue ever holds a  *)
(* player twice, a call for a player already queued leaves the queues as     *)
(* they were, and the value returned is the player's 0-based index in the    *)
(* queue as the call leaves it.                                              *)
C22_EnqueueIdempotent ==
  /\ [](\A gameId \in Matches : NoDuplicates(TurnQueue(playerQueues, gameId)))
  /\ [][\A gameId \in Matches, playerId \in Participants :
         addPlayerToQueue(gameId, playerId) =>
           /\ playerId \in SeqToSet(TurnQueue(playerQueues, gameId)) =>
                 playerQueues' = playerQueues
           /\ playerId \notin SeqToSet(TurnQueue(playerQueues, gameId)) =>
                 TurnQueue(playerQueues', gameId) =
                   Append(TurnQueue(playerQueues, gameId), playerId)
           /\ lastReturn'.value \in 0..(Len(TurnQueue(playerQueues', gameId)) - 1)
           /\ TurnQueue(playerQueues', gameId)[lastReturn'.value + 1] = playerId
           /\ OtherQueuesKept(gameId)]_vars

\* a call for the player in the middle of a full queue returned index 1
C22_Witness ==
  /\ lastReturn.op = "addPlayerToQueue"
  /\ lastReturn.value = 1
  /\ \E gameId \in Matches : Len(TurnQueue(playerQueues, gameId)) = 3

(* C23: getNextPlayer removes and returns the player at the front, and on an *)
(* empty or absent queue returns null and changes nothing; as no step        *)
(* reorders the players of a queue and new players go to the back, players   *)
(* leave in the order in which they were queued.                             *)
C23_DequeueFront ==
  /\ [][\A gameId \in Matches :
         getNextPlayer(gameId) =>
           IF TurnQueue(playerQueues, gameId) # <<>>
           THEN /\ lastReturn'.value = Head(TurnQueue(playerQueues, gameId))
                /\ TurnQueue(playerQueues', gameId) = Tail(TurnQueue(playerQueues, gameId))
                /\ OtherQueuesKept(gameId)
           ELSE /\ lastReturn'.value = Null
                /\ playerQueues' = playerQueues]_vars
  /\ [][\A gameId \in Matches :
         /\ OrderKept(TurnQueue(playerQueues, gameId), TurnQueue(playerQueues', gameId))
         /\ NewAtBack(TurnQueue(playerQueues, gameId), TurnQueue(playerQueues', gameId))]_vars

\* a call returned a player and left two others waiting in the queue
C23_Witness ==
  /\ lastReturn.op = "getNextPlayer"
  /\ lastReturn.value \in Participants
  /\ \E gameId \in Matches :
       /\ Len(TurnQueue(playerQueues, gameId)) = 2
       /\ lastReturn.value \notin SeqToSet(TurnQueue(playerQueues, gameId))

(* C24: removePlayerFromQueue takes the player out of the queue of the game  *)
(* wherever it stands, keeps the other players of that queue in their order  *)
(* and every other queue as it was; when the player or the queue is absent   *)
(* it changes nothing.                                                       *)
C24_RemoveKeepsOrder ==
  [][\A gameId \in Matches, playerId \in Participants :
       removePlayerFromQueue(gameId, playerId) =>
         IF playerId \in SeqToSet(TurnQueue(playerQueues, gameId))
         THEN /\ TurnQueue(playerQueues', gameId) =
                   SelectSeq(TurnQueue(playerQueues, gameId), LAMBDA x : x # playerId)
              /\ OtherQueuesKept(gameId)
         ELSE playerQueues' = playerQueues]_vars

\* after a removal one queue holds two players and the other queue three
C24_Witness ==
  /\ lastReturn.op = "removePlayerFromQueue"
  /\ \E gameId, other \in Matches :
       /\ Len(TurnQueue(playerQueues, gameId)) = 2
       /\ Len(TurnQueue(playerQueues, other)) = 3

(* C25: in every reachable state the queuedTasks figure of getStats() is the *)
(* number of task wrappers waiting in the high, normal and low queues, also  *)
(* while player queues hold players.                                         *)
C25_QueuedTasksCountsTiers ==
  getStats.queuedTasks = WaitingInTiers

(* C26: a cleanup sweep deletes every game lock taken more than 30 s before  *)
(* the sweep and leaves every game lock of age 30 s or less, and every       *)
(* mutex, as it was.                                                         *)
C26_SweepDeletesExpiredOnly ==
  [][cleanup =>
       /\ DOMAIN gameLocks' \subseteq DOMAIN gameLocks
       /\ \A k \in DOMAIN gameLocks :
            IF now - gameLocks[k].timestamp > TTL_MS
            THEN k \notin DOMAIN gameLocks'
            ELSE k \in DOMAIN gameLocks' /\ gameLocks'[k] = gameLocks[k]
       /\ mutexes' = mutexes]_vars

\* the lock of one game was swept under its only caller, who still holds the
\* handle, while the lock of the other game is in the registry
C26_Witness ==
  \E c \in DOMAIN lockCalls :
    /\ lockCalls[c].st = "held"
    /\ lockCalls[c].key \notin DOMAIN gameLocks
    /\ \A d \in DOMAIN lockCalls \ {c} : lockCalls[d].key # lockCalls[c].key
    /\ DOMAIN gameLocks # {}
    /\ nextCleanup > TTL_MS + CLEANUP_INTERVAL_MS

(* C27: an executeInThread call that finds an idle worker starts the task    *)
(* on an idle worker within the call and changes no priority queue; a call  *)
(* that finds every worker busy appends the task to the queue of its own    *)
(* priority and changes no worker.                                          *)
C27_RunsAtOnceOrQueues ==
  [][\A task \in TaskKinds, priority \in TaskPriorities :
       executeInThread(task, priority) =>
         LET id == CHOOSE t \in TaskIds \ InFlight : \A u \in TaskIds \ InFlight : t <= u
         IN IF \E th \in Threads : ~threadPool[th].busy
            THEN /\ playerQueues' = playerQueues
                 /\ task = "async" =>
                      /\ futures'[id] = "pending"
                      /\ activeThreads' = activeThreads + 1
                      /\ \E th \in Threads :
                           /\ ~threadPool[th].busy
                           /\ threadPool'[th].busy
                           /\ threadPool'[th].currentTask = id
                           /\ \A other \in Threads \ {th} : threadPool'[other] = threadPool[other]
                 /\ task = "throws" =>
                      /\ futures'[id] = "rejected"
                      /\ threadPool' = threadPool
                      /\ activeThreads' = activeThreads
            ELSE /\ threadPool' = threadPool
                 /\ activeThreads' = activeThreads
                 /\ futures'[id] = "pending"
                 /\ Len(TierQueue(playerQueues', priority)) = Len(TierQueue(playerQueues, priority)) + 1
                 /\ SubSeq(TierQueue(playerQueues', priority), 1, Len(TierQueue(playerQueues, priority)))
                      = TierQueue(playerQueues, priority)
                 /\ TierQueue(playerQueues', priority)[Len(TierQueue(playerQueues', priority))].id = id
                 /\ TierQueue(playerQueues', priority)[Len(TierQueue(playerQueues', priority))].priority = priority
                 /\ \A p \in TaskPriorities \ {priority} :
                      TierQueue(playerQueues', p) = TierQueue(playerQueues, p)]_vars

\* of the calls since the last completion, one found an idle worker and runs,
\* and the last found none and waits in the queue of its priority
C27_Witness ==
  /\ Len(submitLog) >= 2
  /\ submitLog[1].idle > 0
  /\ submitLog[1].id \in Running
  /\ submitLog[Len(submitLog)].idle = 0
  /\ \E i \in DOMAIN TierQueue(playerQueues, submitLog[Len(submitLog)].priority) :
       TierQueue(playerQueues, submitLog[Len(submitLog)].priority)[i].id = submitLog[Len(submitLog)].id

(* C28: a release by the holder while waiters are queued grants nothing in   *)
(* the same step: it leaves the mutex or lock unheld, takes the head waiter  *)
(* out of the queue and schedules it, and that waiter's call is as it was;   *)
(* a grant is made only by the scheduled callback, in a later step.          *)
C28_ReleaseGrantsLater ==
  /\ [][\A c \in DOMAIN mutexCalls :
         (/\ mutexHandleRelease(c)
          /\ mutexCalls[c].res \in DOMAIN mutexes
          /\ mutexes[mutexCalls[c].res].locked
          /\ mutexes[mutexCalls[c].res].queue # <<>>) =>
           LET r == mutexCalls[c].res
               head == Head(mutexes[r].queue)
           IN /\ r \in DOMAIN mutexes'
              /\ ~mutexes'[r].locked
              /\ mutexes'[r].queue = Tail(mutexes[r].queue)
              /\ mutexWake' = Append(mutexWake, head)
              /\ mutexCalls'[head] = mutexCalls[head]
              /\ mutexGrants' = mutexGrants]_vars
  /\ [][\A c \in DOMAIN lockCalls :
         (/\ lockHandleRelease(c)
          /\ LockOwnedBy(lockCalls[c].key, lockCalls[c].player)
          /\ gameLocks[lockCalls[c].key].queue # <<>>) =>
           LET k == lockCalls[c].key
               head == Head(gameLocks[k].queue)
           IN /\ k \in DOMAIN gameLocks'
              /\ ~gameLocks'[k].locked
              /\ gameLocks'[k].queue = Tail(gameLocks[k].queue)
              /\ lockWake' = Append(lockWake, head)
              /\ lockCalls'[head] = lockCalls[head]
              /\ lockGrants' = lockGrants]_vars

\* a released lock is unheld while its head waiter, still waiting, is scheduled
C28_Witness ==
  /\ lockWake # <<>>
  /\ lockCalls[Head(lockWake)].st = "waiting"
  /\ lockCalls[Head(lockWake)].key \in DOMAIN gameLocks
  /\ ~gameLocks[lockCalls[Head(lockWake)].key].locked
  /\ \E c \in DOMAIN lockCalls :
       lockCalls[c].st = "released" /\ lockCalls[c].key = lockCalls[Head(lockWake)].key

(* C29: once a stale game lock was reclaimed by a call of another player who *)
(* now holds it, a release through the former holder's handle changes        *)
(* nothing in the lock registry and leaves the lock held by the new owner.   *)
C29_FormerHolderReleaseIgnored ==
  [][\A c, d \in DOMAIN lockCalls :
       (/\ lockHandleRelease(c)
        /\ c < d
        /\ lockCalls[d].key = lockCalls[c].key
        /\ lockCalls[d].how = "reclaim"
        /\ lockCalls[d].st = "held"
        /\ lockCalls[d].player # lockCalls[c].player
        /\ lockCalls[c].key \in DOMAIN gameLocks
        /\ gameLocks[lockCalls[c].key].owner = lockCalls[d].player) =>
         /\ gameLocks' = gameLocks
         /\ lockWake' = lockWake
         /\ lockCalls'[d] = lockCalls[d]]_vars

\* the former holder has released and the reclaiming player still holds the lock
C29_Witness ==
  \E c, d \in DOMAIN lockCalls :
    /\ c < d
    /\ lockCalls[c].st = "released"
    /\ lockCalls[c].how = "free"
    /\ lockCalls[d].key = lockCalls[c].key
    /\ lockCalls[d].how = "reclaim"
    /\ lockCalls[d].st = "held"
    /\ lockCalls[d].player # lockCalls[c].player
    /\ lockCalls[c].key \in DOMAIN gameLocks
    /\ gameLocks[lockCalls[c].key].locked
    /\ gameLocks[lockCalls[c].key].owner = lockCalls[d].player
    /\ Len(lockCalls) = 2

(* C30: a call of detectDeadlocks() only observes: it leaves the mutex       *)
(* registry, the game locks, the worker pool, the priority queues and the   *)
(* player queues as they were, and settles or releases no caller's hold.    *)
C30_DetectorOnlyObserves ==
  [][callDetectDeadlocks =>
       UNCHANGED <<mutexes, mutexCalls, mutexWake, mutexGrants,
                   gameLocks, lockCalls, lockWake, lockGrants,
                   threadPool, activeThreads, futures, playerQueues>>]_vars

\* the detector has returned and a held mutex with a queued waiter is in the registry
C30_Witness ==
  /\ lastReturn.op = "detectDeadlocks"
  /\ \E r \in DOMAIN mutexes : mutexes[r].locked /\ mutexes[r].queue # <<>>
  /\ \E c \in DOMAIN mutexCalls : mutexCalls[c].st = "held"

(* C31: in every reachable state no acquire call stands more than once in    *)
(* the waiter queue of a mutex or game lock, and no call that holds the      *)
(* resource stands in its waiter queue.                                      *)
C31_WaiterQueuedOnce ==
  /\ \A r \in DOMAIN mutexes :
       /\ NoDuplicates(mutexes[r].queue)
       /\ \A i \in DOMAIN mutexes[r].queue : mutexCalls[mutexes[r].queue[i]].st # "held"
  /\ \A k \in DOMAIN gameLocks :
       /\ NoDuplicates(gameLocks[k].queue)
       /\ \A i \in DOMAIN gameLocks[k].queue : lockCalls[gameLocks[k].queue[i]].st # "held"

\* a waiter that was woken, found the lock taken by a later caller and went
\* back into the queue stands there once
C31_Witness ==
  \E c, d \in DOMAIN lockCalls :
    /\ lockCalls[c].how = "queued"
    /\ lockCalls[c].st = "waiting"
    /\ lockCalls[d].how = "barge"
    /\ lockCalls[d].st = "held"
    /\ lockCalls[d].key = lockCalls[c].key
    /\ lockCalls[c].key \in DOMAIN gameLocks
    /\ gameLocks[lockCalls[c].key].queue = <<c>>

(* C32: a cleanup sweep deletes exactly the queues that are empty and leaves *)
(* every queue that holds a waiting task or player as it was; a call of      *)
(* executeInThread or addPlayerToQueue that finds no queue under its key,    *)
(* pruned or never made, starts from an empty queue.                         *)
C32_SweepPrunesEmptyQueues ==
  /\ [][cleanup =>
         /\ DOMAIN playerQueues' = {k \in DOMAIN playerQueues : playerQueues[k] # <<>>}
         /\ \A k \in DOMAIN playerQueues' : playerQueues'[k] = playerQueues[k]]_vars
  /\ [][\A gameId \in Matches, playerId \in Participants :
         (addPlayerToQueue(gameId, playerId) /\ QueueKey(gameId) \notin DOMAIN playerQueues) =>
           /\ QueueKey(gameId) \in DOMAIN playerQueues'
           /\ playerQueues'[QueueKey(gameId)] = <<playerId>>
           /\ lastReturn'.value = 0]_vars
  /\ [][\A task \in TaskKinds, priority \in TaskPriorities :
         (/\ executeInThread(task, priority)
          /\ \A th \in Threads : threadPool[th].busy
          /\ priority \notin DOMAIN playerQueues) =>
           /\ priority \in DOMAIN playerQueues'
           /\ Len(playerQueues'[priority]) = 1
           /\ playerQueues'[priority][1].task = task
           /\ futures[playerQueues'[priority][1].id] # "pending"
           /\ futures'[playerQueues'[priority][1].id] = "pending"]_vars

\* the last call took the only player of one game's queue, a sweep has since
\* deleted that queue, and the other game's queue holds its three players
C32_Witness ==
  /\ lastReturn.op = "getNextPlayer"
  /\ lastReturn.value \in Participants
  /\ \E gameId \in Matches :
       /\ DOMAIN playerQueues = {QueueKey(gameId)}
       /\ Len(playerQueues[QueueKey(gameId)]) = 3

(* C33: a reliable message that is never acknowledged is emitted at most     *)
(* retryAttempts (3) times, timeoutMs apart, and once no timer of it is      *)
(* pending it is out of the queue of its socket and its promise is rejected. *)
C33_UnackedSentThriceThenRejected ==
  \A c \in DOMAIN sends : sends[c].acks = {} => SentThreeTimesThenRejected(c)

(* C34: once the socket a reliable message was sent to has acknowledged it, *)
(* the send promise is resolved and the message is out of the queue of that  *)
(* socket, and no later step emits it again or changes the promise.          *)
C34_AckedResolvedAndQuiet ==
  /\ [](\A c \in DOMAIN sends :
         Acknowledged(c) =>
           /\ sends[c].promise = "resolved"
           /\ sends[c].id \notin DOMAIN PlayerQueue(sends[c].socket))
  /\ [][\A c \in DOMAIN sends :
         Acknowledged(c) =>
           /\ sends'[c].emits = sends[c].emits
           /\ sends'[c].promise = sends[c].promise]_vars

(* C35: a game lock whose holder has had it for at most 10 s is not taken    *)
(* from that holder: no step but the release through the holder's own        *)
(* handle unlocks, deletes or re-grants it, and a call arriving meanwhile    *)
(* is queued.                                                                *)
C35_FreshLockNotTaken ==
  [][\A k \in LockKeys :
       LockFreshlyHeld(k) =>
         \/ lockCalls'[LockHolder(k)].st = "released"
         \/ /\ k \in DOMAIN gameLocks'
            /\ gameLocks'[k].locked
            /\ gameLocks'[k].owner = gameLocks[k].owner
            /\ gameLocks'[k].timestamp = gameLocks[k].timestamp
            /\ lockGrants'[k] = lockGrants[k]]_vars

(* C36: the pool is work-conserving: in no reachable state is a worker idle  *)
(* while a task waits in a priority queue.                                   *)
C36_NoIdleWorkerWhileQueued ==
  ~(/\ \E th \in Threads : ~threadPool[th].busy
    /\ \E p \in TaskPriorities : TierQueue(playerQueues, p) # <<>>)

\* a task has failed, its worker took a task from the queues at once, and
\* another task is still waiting with every worker busy
C36_Witness ==
  /\ submitLog = <<>>
  /\ \E t \in TaskIds : futures[t] = "rejected"
  /\ \A th \in Threads : threadPool[th].busy
  /\ \E p \in TaskPriorities : TierQueue(playerQueues, p) # <<>>

(* C37: in every reachable state activeThreads, as getStats reports it, is   *)
(* the number of workers with busy set and lies in 0..maxThreads, a worker   *)
(* is busy exactly when it has a current task, and threadUtilization lies    *)
(* in 0..100.                                                                *)
C37_ActiveThreadsCountsBusy ==
  /\ getStats.activeThreads = Cardinality({th \in Threads : threadPool[th].busy})
  /\ getStats.activeThreads \in 0..maxThreads
  /\ \A th \in Threads : threadPool[th].busy <=> threadPool[th].currentTask # NoTask
  /\ getStats.threadUtilization \in 0..100

\* one worker runs a task after another task has completed
C37_Witness ==
  /\ activeThreads = 1
  /\ \E th \in Threads : threadPool[th].busy /\ futures[threadPool[th].currentTask] = "pending"
  /\ \E t \in TaskIds : futures[t] = "resolved"
  /\ Queued = {}

(* C38: releasing a game-lock handle a second time has no effect: the lock   *)
(* registry and the scheduled waiters are as before, so a lock granted by a  *)
(* later acquire stays held.                                                 *)
C38_SecondReleaseNoEffect ==
  [][\A c \in DOMAIN lockCalls :
       lockHandleReleaseAgain(c) => gameLocks' = gameLocks /\ lockWake' = lockWake]_vars
(* C39: a joinRoom handler that was granted the lock of its room calls       *)
(* release exactly once before it finishes, whether the player was added,    *)
(* the room was full or the room operation threw, and that release leaves    *)
(* the lock unheld; a handler whose acquire timed out calls release not at   *)
(* all.                                                                      *)
C39_HandlerReleasesOnce ==
  /\ [](\A c \in DOMAIN handlers :
         handlers[c].st = "finished" =>
           IF handlers[c].room \in RoomOutcomes
           THEN handlers[c].releases = 1 /\ lockCalls[c].st = "released"
           ELSE handlers[c].releases = 0 /\ lockCalls[c].st = "timedout")
  /\ [][\A c \in DOMAIN lockCalls :
         joinRoomResumes(c) =>
           \/ lockCalls[c].key \notin DOMAIN gameLocks'
           \/ ~gameLocks'[lockCalls[c].key].locked]_vars

\* one handler was granted the lock, threw and released; another timed out
\* behind a lock held by another caller and finished without a release
C39_Witness ==
  \E c, d \in DOMAIN handlers :
    /\ handlers[c].st = "finished" /\ handlers[c].room = "threw" /\ handlers[c].releases = 1
    /\ handlers[d].st = "finished" /\ handlers[d].room = "none" /\ handlers[d].releases = 0
    /\ lockCalls[d].st = "timedout"

============================================================================
